---- MODULE Spec2Model ----
(***************************************************************************)
(* Model of src/main.py: recovery of NPC records, dialogue entries, spoken *)
(* line events and voice-line tables from a compiled Daedalus script.      *)
(*                                                                         *)
(* The script image (symbol table and instruction stream) and the line-    *)
(* text database are inputs; Init draws them from a bounded family.  The   *)
(* handlers of main.py are translated statement by statement; loops are    *)
(* unrolled one iteration per step under a program counter.                *)
(***************************************************************************)
EXTENDS Integers, Sequences, FiniteSets, TLC

VARIABLES
    script,              \* DaedalusScript: [symbols, code]
    csl,                 \* CutsceneLibrary: line ids that have a message
    script_const,        \* ScriptConstants (main.py:393)
    pc,                  \* control position
    symi,                \* position of the dialogue loop (main.py:401)
    dia,                 \* locals of parse_dia
    npcw,                \* locals of NpcInfo.parse_npc
    stack,               \* activation records of extract_script_lines
    svm,                 \* locals of the voice-table pass
    npc_cache,           \* main.py:86
    script_lines_cache,  \* main.py:200: function address -> list object
    heap,                \* the list objects of line events, by identity
    svm_usages,          \* main.py:398
    line_owner,          \* main.py:399
    output,              \* rows written after the header row
    log,                 \* diagnostic lines printed
    nextOid,             \* identity of the next NpcInfo object created
    walks,               \* per address: bodies walked by extract_script_lines
    parses               \* per NPC index: bodies parsed by parse_npc

vars == <<script, csl, script_const, pc, symi, dia, npcw, stack, svm,
          npc_cache, script_lines_cache, heap, svm_usages, line_owner, output,
          log, nextOid, walks, parses>>

(***************************************************************************)
(* Bounds of the model.                                                    *)
(***************************************************************************)
MaxDia == 2          \* dialogue entries in one script image
RecursionLimit == 4  \* frames of extract_script_lines before RecursionError

None == [tag |-> "None"]

(***************************************************************************)
(* Script images.  A template instruction names symbols and call targets;  *)
(* Layout resolves names to symbol indices and code addresses.             *)
(***************************************************************************)
Ins(op, sym, imm, immsym, tgt) ==
    [op |-> op, sym |-> sym, imm |-> imm, immsym |-> immsym, tgt |-> tgt]

PushV(s)  == Ins("PUSHV", s, 0, "", "")
PushVI(s) == Ins("PUSHVI", s, 0, "", "")
PushI(n)  == Ins("PUSHI", "", n, "", "")
PushF(f)  == Ins("PUSHI", "", 0, f, "")
Op(o)     == Ins(o, "", 0, "", "")
BE(f)     == Ins("BE", f, 0, "", "")
BL(f)     == Ins("BL", "", 0, "", f)

\* AI_Output(speaker, listener, line) and the script wrappers around it
Say(fn, spk, lst, line)  == <<PushVI(spk), PushVI(lst), PushV(line), BE(fn)>>
BSay(fn, spk, lst, line) == <<PushVI(spk), PushVI(lst), PushV(line), BL(fn)>>
BGold(spk, lst, n)       == <<PushVI(spk), PushVI(lst), PushI(n), BL("B_SAY_GOLD")>>

Sym(name, type, parent, size, const, str, int, body) ==
    [name |-> name, type |-> type, parent |-> parent, size |-> size,
     is_const |-> const, str |-> str, int |-> int, body |-> body]

SVar(n)        == Sym(n, "VAR", "", 1, FALSE, "", 0, <<>>)
SStr(n, v)     == Sym(n, "STRING", "", 1, TRUE, v, 0, <<>>)
SInt(n, v)     == Sym(n, "INT", "", 1, TRUE, "", v, <<>>)
SClass(n, k)   == Sym(n, "CLASS", "", k, FALSE, "", 0, <<>>)
SExt(n)        == Sym(n, "FUNCTION", "", 0, TRUE, "", 0, <<>>)
SFun(n, b)     == Sym(n, "FUNCTION", "", 0, TRUE, "", 0, b)
SInst(n, p, b) == Sym(n, "INSTANCE", p, 0, FALSE, "", 0, b)

NameIdiom(c)  == <<PushV(c), PushV("C_NPC.NAME"), Op("MOVS")>>
VoiceIdiom(v) == <<PushI(v), PushV("C_NPC.VOICE"), Op("MOVI")>>

FixedSyms(cnt) == <<
    SVar("SELF"), SVar("OTHER"), SInt("SVM_MODULES", cnt),
    SInst("NPC_A", "C_NPC", NameIdiom("NAME_A") \o VoiceIdiom(1) \o <<Op("RSR")>>),
    SInst("NPC_B", "C_NPC", <<Op("ADD")>> \o VoiceIdiom(1) \o <<PushI(7), Op("ADD")>>
                              \o NameIdiom("NAME_B") \o <<Op("RSR")>>),
    SInst("NPC_C", "C_NPC", NameIdiom("NAME_A") \o <<Op("RSR")>>),
    SClass("C_NPC", 2), SVar("C_NPC.NAME"), SVar("C_NPC.VOICE"),
    SClass("C_INFO", 2), SVar("C_INFO.NPC"), SVar("C_INFO.INFORMATION"),
    SClass("C_SVM", 2), SVar("C_SVM.HI"), SVar("C_SVM.BYE"),
    SExt("AI_OUTPUT"), SExt("AI_OUTPUTSVM"), SExt("AI_OUTPUTSVM_OVERLAY"),
    SFun("B_SAY", <<PushVI("SELF"), PushVI("OTHER"), PushV("PAR_TEXT"),
                    BE("AI_OUTPUTSVM"), Op("RSR")>>),
    SFun("B_SAY_OVERLAY", <<PushVI("SELF"), PushVI("OTHER"), PushV("PAR_TEXT"),
                            BE("AI_OUTPUTSVM_OVERLAY"), Op("RSR")>>),
    SFun("B_SAY_GOLD", <<PushVI("SELF"), PushVI("OTHER"), PushV("PAR_TEXT"),
                         BE("AI_OUTPUTSVM"), Op("RSR")>>),
    SVar("PAR_TEXT"),
    SStr("NAME_A", "Alice"), SStr("NAME_B", "Bob"),
    SStr("L1", "DIA_3_01"), SStr("L2", "DIA_4_01"),
    SStr("LHI", "$HI"), SStr("LBYE", "$BYE"),
    SFun("F_HELLO", Say("AI_OUTPUT", "SELF", "OTHER", "L1") \o <<Op("RSR")>>),
    SFun("F_HERO", Say("AI_OUTPUT", "OTHER", "SELF", "L1")
                   \o BSay("B_SAY", "OTHER", "SELF", "LHI")
                   \o Say("AI_OUTPUTSVM", "OTHER", "SELF", "LHI")
                   \o <<Op("RSR")>>),
    SFun("F_SVM", BSay("B_SAY", "SELF", "OTHER", "LHI")
                  \o Say("AI_OUTPUTSVM_OVERLAY", "SELF", "OTHER", "LHI")
                  \o BGold("SELF", "OTHER", 50)
                  \o BSay("B_SAY_OVERLAY", "SELF", "OTHER", "LBYE")
                  \o <<Op("RSR")>>),
    SFun("F_HELPER", Say("AI_OUTPUT", "SELF", "OTHER", "L2") \o <<Op("RSR")>>),
    SFun("F_EMPTY", <<Op("RSR")>>),
    SFun("F_CALLER", <<BL("F_EMPTY"), BL("F_HELPER")>>
                     \o Say("AI_OUTPUT", "SELF", "OTHER", "L1")
                     \o <<BL("F_HELPER"), BL("F_EMPTY")>>
                     \o Say("AI_OUTPUT", "SELF", "OTHER", "L1")
                     \o <<Op("RSR")>>),
    SFun("F_LOOP", Say("AI_OUTPUT", "SELF", "OTHER", "L1")
                   \o <<BL("F_LOOP"), Op("RSR")>>),
    SFun("F_PING", <<BL("F_PONG"), Op("RSR")>>),
    SFun("F_PONG", <<BL("F_PING"), Op("RSR")>>)
>>

\* an NPC constructor with both field idioms in the order v.order, other
\* instructions v.j0 before the first and v.j1 between the two
NpcVBody(v) ==
    v.j0
    \o (IF v.order = "NV" THEN NameIdiom("NAME_A") ELSE VoiceIdiom(2))
    \o v.j1
    \o (IF v.order = "NV" THEN VoiceIdiom(2) ELSE NameIdiom("NAME_A"))
    \o <<Op("RSR")>>

\* symbols that follow the fixed ones: the NPC of NpcVBody and a function
\* whose calls have every operand shape the walker distinguishes
ExtraSyms(v) == <<
    SInst("NPC_V", "C_NPC", NpcVBody(v)),
    SStr("LEMPTY", ""),
    SFun("F_ODD", <<BE("AI_OUTPUTSVM")>>
                  \o <<PushV("L1"), BE("AI_OUTPUT")>>
                  \o <<PushV("SELF"), PushVI("OTHER"), PushV("L2"), BE("AI_OUTPUT")>>
                  \o BSay("B_SAY", "PAR_TEXT", "OTHER", "LHI")
                  \o <<PushVI("SELF"), PushVI("OTHER"), PushI(3), BE("AI_OUTPUT")>>
                  \o Say("AI_OUTPUTSVM", "SELF", "OTHER", "PAR_TEXT")
                  \o BSay("B_SAY_OVERLAY", "OTHER", "SELF", "NOPE")
                  \o Say("AI_OUTPUT", "OTHER", "SELF", "LEMPTY")
                  \o <<Op("RSR")>>)
>>

\* voice slot s: the instance SVM_<s> and the line ids it assigns; slot 2
\* also holds a move-string without operands and one to another variable
SlotSyms(s) == <<
    SStr("SVMLINE_" \o ToString(s) \o "_HI", "SVM_" \o ToString(s) \o "_HI"),
    SStr("SVMLINE_" \o ToString(s) \o "_BYE", "SVM_" \o ToString(s) \o "_BYE"),
    SInst("SVM_" \o ToString(s), "C_SVM",
          (IF s = 2 THEN <<Op("MOVS")>> ELSE <<>>)
          \o <<PushV("SVMLINE_" \o ToString(s) \o "_HI"), PushV("C_SVM.HI"), Op("MOVS")>>
          \o (IF s = 2 THEN <<PushV("LHI"), PushV("PAR_TEXT"), Op("MOVS")>> ELSE <<>>)
          \o (IF s <= 2
              THEN <<PushV("SVMLINE_" \o ToString(s) \o "_BYE"), PushV("C_SVM.BYE"),
                     Op("MOVS")>>
              ELSE <<>>)
          \o <<Op("RSR")>>)
>>

RECURSIVE SlotSymsUpTo(_, _)
SlotSymsUpTo(n, missing) ==
    IF n = 0 THEN <<>>
    ELSE SlotSymsUpTo(n - 1, missing)
         \o (IF n = missing THEN SubSeq(SlotSyms(n), 1, 2) ELSE SlotSyms(n))

\* a dialogue entry: instance of C_INFO assigning npc and information
DiaBody(d) ==
    (IF d.npc = -1 THEN <<>> ELSE <<PushI(d.npc), PushV("C_INFO.NPC"), Op("MOVI")>>)
    \o (IF d.info = "" THEN <<>>
        ELSE <<PushF(d.info), PushV("C_INFO.INFORMATION"), Op("MOVVF")>>)
    \o <<Op("RSR")>>

DiaSyms(dias) ==
    [i \in 1..Len(dias) |-> SInst("DIA_" \o ToString(i), "C_INFO", DiaBody(dias[i]))]

\* closing body so that a 3-instruction window never leaves the stream
PadSyms == <<SFun("PAD", <<Op("RSR"), Op("RSR"), Op("RSR")>>)>>

SymList(p) ==
    FixedSyms(p.cnt) \o ExtraSyms(p.npcv) \o SlotSymsUpTo(p.cnt - 1, p.missing)
    \o DiaSyms(p.dias) \o PadSyms

OpSize(op) == IF op \in {"PUSHV", "PUSHVI", "PUSHI", "BE", "BL"} THEN 5 ELSE 1

RECURSIVE BodySize(_)
BodySize(b) == IF b = <<>> THEN 0 ELSE OpSize(Head(b).op) + BodySize(Tail(b))

\* start address of every body: bodies follow each other from address 0
RECURSIVE Starts(_, _)
Starts(syms, k) ==
    IF k = 0 THEN <<>>
    ELSE LET s == Starts(syms, k - 1)
         IN  Append(s, IF k = 1 THEN 0 ELSE s[k - 1] + BodySize(syms[k - 1].body))

IndexOfName(syms, name) ==
    IF \E k \in 1..Len(syms) : syms[k].name = name
    THEN (CHOOSE k \in 1..Len(syms) : syms[k].name = name) - 1
    ELSE -1

Resolve(syms, starts, t, addr) ==
    [op        |-> t.op,
     size      |-> OpSize(t.op),
     addr      |-> addr,
     symbol    |-> IF t.sym = "" THEN 0 ELSE IndexOfName(syms, t.sym),
     immediate |-> IF t.immsym = "" THEN t.imm ELSE IndexOfName(syms, t.immsym),
     address   |-> IF t.tgt = "" THEN 0 ELSE starts[IndexOfName(syms, t.tgt) + 1]]

\* the instructions of body k, by address
BodyCode(syms, starts, k) ==
    LET b  == syms[k].body
        at == [i \in 1..Len(b) |-> starts[k] + BodySize(SubSeq(b, 1, i - 1))]
    IN  [a \in {at[i] : i \in 1..Len(b)} |->
            Resolve(syms, starts, b[CHOOSE i \in 1..Len(b) : at[i] = a], a)]

RECURSIVE Merge(_, _, _, _)
Merge(syms, starts, lo, hi) ==
    IF lo > hi THEN <<>>
    ELSE IF lo = hi THEN BodyCode(syms, starts, lo)
    ELSE Merge(syms, starts, lo, (lo + hi) \div 2)
         @@ Merge(syms, starts, (lo + hi) \div 2 + 1, hi)

Image(p) ==
    LET syms   == SymList(p)
        starts == Starts(syms, Len(syms))
    IN  [symbols |-> [i \in 0..(Len(syms) - 1) |->
                        [index    |-> i,
                         name     |-> syms[i + 1].name,
                         type     |-> syms[i + 1].type,
                         parent   |-> IF syms[i + 1].parent = "" THEN -1
                                      ELSE IndexOfName(syms, syms[i + 1].parent),
                         size     |-> syms[i + 1].size,
                         is_const |-> syms[i + 1].is_const,
                         str      |-> syms[i + 1].str,
                         int      |-> syms[i + 1].int,
                         address  |-> IF syms[i + 1].body = <<>> THEN 0
                                      ELSE starts[i + 1]]],
         code    |-> Merge(syms, starts, 1, Len(syms))]

(***************************************************************************)
(* The zenkit interface as main.py uses it.                                *)
(***************************************************************************)
GetSymbolByName(name) ==
    IF \E i \in DOMAIN script.symbols : script.symbols[i].name = name
    THEN script.symbols[CHOOSE i \in DOMAIN script.symbols : script.symbols[i].name = name]
    ELSE None

GetSymbolByIndex(i) ==
    IF i \in DOMAIN script.symbols THEN script.symbols[i] ELSE None

GetInstruction(addr) == script.code[addr]

Message(id) ==
    [text |-> IF id = "DIA_3_01" THEN "Hello." ELSE "text of " \o id,
     name |-> IF id = "DIA_3_01" THEN "dia_3_01.wav" ELSE id \o ".wav"]

CslGet(id) == IF id \in DOMAIN csl THEN csl[id] ELSE None

RECURSIVE AfterDot(_)
AfterDot(s) ==
    IF Len(s) = 0 THEN ""
    ELSE IF Head(s) = "." THEN Tail(s) ELSE AfterDot(Tail(s))

\* DaedClass.search / DaedClass.__init__ over an image sc
DaedClass(img, name) ==
    LET idx == CHOOSE i \in DOMAIN img.symbols : img.symbols[i].name = name
    IN  [idx     |-> idx,
         members |-> [n \in {AfterDot(img.symbols[idx + off].name) :
                              off \in 1..img.symbols[idx].size} |->
                        CHOOSE m \in (idx + 1)..(idx + img.symbols[idx].size) :
                            AfterDot(img.symbols[m].name) = n]]

ScriptConstants(img) ==
    LET byName(n)  == CHOOSE i \in DOMAIN img.symbols : img.symbols[i].name = n
        has(n)     == \E i \in DOMAIN img.symbols : img.symbols[i].name = n
        addrOf(n)  == IF has(n) THEN img.symbols[byName(n)].address ELSE -1
        c_info     == DaedClass(img, "C_INFO")
        c_npc      == DaedClass(img, "C_NPC")
        c_svm      == DaedClass(img, "C_SVM")
    IN  [c_info            |-> c_info,
         c_info_npc        |-> c_info.members["NPC"],
         c_info_info       |-> c_info.members["INFORMATION"],
         c_npc             |-> c_npc,
         c_npc_name        |-> c_npc.members["NAME"],
         c_npc_voice       |-> c_npc.members["VOICE"],
         c_svm             |-> c_svm,
         svm_member_lookup |-> [m \in {c_svm.members[n] : n \in DOMAIN c_svm.members} |->
                                  CHOOSE n \in DOMAIN c_svm.members : c_svm.members[n] = m],
         v_other           |-> byName("OTHER"),
         v_self            |-> byName("SELF"),
         f_aioutput        |-> byName("AI_OUTPUT"),
         f_aioutputsvm     |-> byName("AI_OUTPUTSVM"),
         f_aioutputsvmo    |-> byName("AI_OUTPUTSVM_OVERLAY"),
         f_say             |-> addrOf("B_SAY"),
         f_say_overlay     |-> addrOf("B_SAY_OVERLAY"),
         f_say_gold        |-> addrOf("B_SAY_GOLD")]

(***************************************************************************)
(* NpcInfo objects.  Python compares them by identity (the class defines   *)
(* no __eq__), so every constructed object carries its identity oid.       *)
(***************************************************************************)
NpcInfo(oid, idx, name, voice) ==
    [tag |-> "NpcInfo", oid |-> oid, idx |-> idx, name |-> name, voice |-> voice]

\* the unknown NPC displayed like an absent one
NpcUnknown_m(oid) == NpcInfo(oid, 0, "-", 0)

NpcUnknown(oid) == NpcInfo(oid, -1, "Unknown", 0)

\* the constructor arguments of the hero in another order
NpcHero_m(oid) == NpcInfo(oid, 15, "Hero", 0)

NpcHero(oid) == NpcInfo(oid, 0, "Hero", 15)

\* number of times a body was entered, per key
Count(c, k) ==
    [x \in DOMAIN c \cup {k} |->
        IF x \in DOMAIN c THEN c[x] + (IF x = k THEN 1 ELSE 0) ELSE 1]

Crash(exc) ==
    /\ pc' = "crashed"
    /\ log' = Append(log, <<"Traceback", exc>>)

(***************************************************************************)
(* Voice-table pass: SvmInfo.__init__ and the slot loop of main.           *)
(***************************************************************************)
NoSvm ==
    [voice_idx |-> 0, svm_count |-> 0, current_addr |-> 0, inst |-> None,
     prev_insts |-> <<>>, voicelines |-> <<>>, k |-> 0]

\* dict assignment d[key] = val on an insertion-ordered dict of pairs
DictSet(d, key, val) ==
    IF \E j \in 1..Len(d) : d[j][1] = key
    THEN [j \in 1..Len(d) |-> IF d[j][1] = key THEN <<key, val>> ELSE d[j]]
    ELSE Append(d, <<key, val>>)

RECURSIVE Join(_)
Join(names) ==
    IF names = <<>> THEN ""
    ELSE IF Len(names) = 1 THEN names[1]
    ELSE names[1] \o "," \o Join(Tail(names))

\* main.py:418: svm_usages.get(key) is not None
HasUsage(key) == key \in DOMAIN svm_usages

\* main.py:419-441
SvmOwnerName(voice_idx, key) ==
    IF voice_idx = 15 THEN "Hero"
    ELSE IF ~HasUsage(key) THEN "Unknown" \o ToString(voice_idx)
    ELSE IF Len(svm_usages[key]) = 1
         THEN IF svm_usages[key][1] = None THEN "Unknown" ELSE svm_usages[key][1].name
    ELSE Join([j \in 1..Len(svm_usages[key]) |->
                 IF svm_usages[key][j] = None THEN "Unknown" ELSE svm_usages[key][j].name])

\* the index of a slot without usage taken from the unknown NPC
SvmOwnerIdx_m(voice_idx, key) ==
    IF voice_idx = 15 THEN 0
    ELSE IF ~HasUsage(key) THEN -1
    ELSE IF Len(svm_usages[key]) = 1
         THEN IF svm_usages[key][1] = None THEN -1 ELSE svm_usages[key][1].idx
    ELSE voice_idx

SvmOwnerIdx(voice_idx, key) ==
    IF voice_idx = 15 THEN 0
    ELSE IF ~HasUsage(key) THEN voice_idx
    ELSE IF Len(svm_usages[key]) = 1
         THEN IF svm_usages[key][1] = None THEN -1 ELSE svm_usages[key][1].idx
    ELSE voice_idx

\* main.py:412-413 and 275-280: enter the loop body for the next slot
SvmInit ==
    /\ pc = "svm_loop"
    /\ svm.voice_idx < svm.svm_count
    /\ LET svm_inst == GetSymbolByName("SVM_" \o ToString(svm.voice_idx))
       IN  IF svm_inst = None
           THEN /\ Crash("AttributeError")
                /\ UNCHANGED svm
           ELSE /\ svm' = [svm EXCEPT !.current_addr = svm_inst.address,
                                      !.inst = GetInstruction(svm_inst.address),
                                      !.prev_insts = <<>>,
                                      !.voicelines = <<>>]
                /\ pc' = "svm_walk"
                /\ UNCHANGED log
    /\ UNCHANGED <<script, heap, csl, script_const, symi, dia, npcw, stack, npc_cache,
                   script_lines_cache, svm_usages, line_owner, output, nextOid,
                   walks, parses>>

\* the walk that asks for three prior instructions before a move-string
SvmWalk_m ==
    /\ pc = "svm_walk"
    /\ LET inst == svm.inst
           prev == svm.prev_insts
           n    == Len(prev)
       IN  IF inst.op = "RSR"
           THEN /\ pc' = "svm_rows"
                /\ svm' = [svm EXCEPT !.k = 1]
                /\ log' = Append(log, <<"SVM meta loaded", svm.voice_idx>>)
           ELSE LET hit       == inst.op = "MOVS" /\ n >= 3
                    voiceline == GetSymbolByIndex(prev[n - 1].symbol).str
                    known     == prev[n].symbol \in DOMAIN script_const.svm_member_lookup
                    member    == script_const.svm_member_lookup[prev[n].symbol]
                IN  /\ pc' = "svm_walk"
                    /\ svm' = [svm EXCEPT
                                 !.voicelines = IF hit /\ known
                                                THEN DictSet(@, member, voiceline)
                                                ELSE @,
                                 !.current_addr = @ + inst.size,
                                 !.prev_insts = Append(@, inst),
                                 !.inst = GetInstruction(svm.current_addr + inst.size)]
                    /\ log' = IF hit /\ ~known
                              THEN Append(log, <<"SVM Member IDX not resolvable", svm.voice_idx>>)
                              ELSE log
    /\ UNCHANGED <<script, heap, csl, script_const, symi, dia, npcw, stack, npc_cache,
                   script_lines_cache, svm_usages, line_owner, output, nextOid,
                   walks, parses>>

\* main.py:281-295 (one iteration) and 414
SvmWalk ==
    /\ pc = "svm_walk"
    /\ LET inst == svm.inst
           prev == svm.prev_insts
           n    == Len(prev)
       IN  IF inst.op = "RSR"
           THEN /\ pc' = "svm_rows"
                /\ svm' = [svm EXCEPT !.k = 1]
                /\ log' = Append(log, <<"SVM meta loaded", svm.voice_idx>>)
           ELSE LET hit       == inst.op = "MOVS" /\ n >= 2
                    voiceline == GetSymbolByIndex(prev[n - 1].symbol).str
                    known     == prev[n].symbol \in DOMAIN script_const.svm_member_lookup
                    member    == script_const.svm_member_lookup[prev[n].symbol]
                IN  /\ pc' = "svm_walk"
                    /\ svm' = [svm EXCEPT
                                 !.voicelines = IF hit /\ known
                                                THEN DictSet(@, member, voiceline)
                                                ELSE @,
                                 !.current_addr = @ + inst.size,
                                 !.prev_insts = Append(@, inst),
                                 !.inst = GetInstruction(svm.current_addr + inst.size)]
                    /\ log' = IF hit /\ ~known
                              THEN Append(log, <<"SVM Member IDX not resolvable", svm.voice_idx>>)
                              ELSE log
    /\ UNCHANGED <<script, heap, csl, script_const, symi, dia, npcw, stack, npc_cache,
                   script_lines_cache, svm_usages, line_owner, output, nextOid,
                   walks, parses>>

\* main.py:415-447 (one iteration of the loop over svm.voicelines)
SvmRow ==
    /\ pc = "svm_rows"
    /\ IF svm.k > Len(svm.voicelines)
       THEN /\ pc' = "svm_loop"
            /\ svm' = [svm EXCEPT !.voice_idx = @ + 1]
            /\ UNCHANGED <<output, log>>
       ELSE LET member       == svm.voicelines[svm.k][1]
                voiceline    == svm.voicelines[svm.k][2]
                line_details == CslGet(voiceline)
                key          == <<svm.voice_idx, member>>
                npc_name     == SvmOwnerName(svm.voice_idx, key)
                npc_idx      == SvmOwnerIdx(svm.voice_idx, key)
            IN  /\ pc' = "svm_rows"
                /\ svm' = [svm EXCEPT !.k = @ + 1]
                /\ IF line_details # None
                   THEN /\ output' = Append(output, <<voiceline, npc_name, npc_idx,
                                                     svm.voice_idx, line_details.text,
                                                     line_details.name>>)
                        /\ UNCHANGED log
                   ELSE /\ log' = Append(log, <<"SVM not found in CSL", voiceline>>)
                        /\ UNCHANGED output
    /\ UNCHANGED <<script, heap, csl, script_const, symi, dia, npcw, stack, npc_cache,
                   script_lines_cache, svm_usages, line_owner, nextOid, walks, parses>>

\* main.py:412 exhausted, 450
MainDone ==
    /\ pc = "svm_loop"
    /\ svm.voice_idx >= svm.svm_count
    /\ pc' = "done"
    /\ UNCHANGED <<script, heap, csl, script_const, symi, dia, npcw, stack, svm, npc_cache,
                   script_lines_cache, svm_usages, line_owner, output, log, nextOid,
                   walks, parses>>

(***************************************************************************)
(* NpcInfo.parse_npc and the field matcher of parse_dia.                   *)
(***************************************************************************)
NoDia ==
    [symbol |-> -1, npc_idx |-> -1, info_idx |-> -1, inst1 |-> None, inst2 |-> None,
     inst3 |-> None, current_addr |-> 0, npc |-> None, lines |-> 0, i |-> 0]

NoNpcw ==
    [npc_idx |-> -1, npc_name_idx |-> -1, npc_voice |-> -1, inst1 |-> None,
     inst2 |-> None, inst3 |-> None, current_addr |-> 0]

\* main.py:116-121 and 311-316: the first window at a body's start address
Window(w, addr) ==
    LET i1 == GetInstruction(addr)
        i2 == GetInstruction(addr + i1.size)
        i3 == GetInstruction(addr + i1.size + i2.size)
    IN  [w EXCEPT !.inst1 = i1, !.inst2 = i2, !.inst3 = i3,
                  !.current_addr = addr + i1.size + i2.size]

\* the slide that keeps the oldest instruction and drops the middle one
Slide_m(w) ==
    [w EXCEPT !.inst2 = w.inst3,
              !.current_addr = w.current_addr + w.inst3.size,
              !.inst3 = GetInstruction(w.current_addr + w.inst3.size)]

\* main.py:146-149 and 339-342
Slide(w) ==
    [w EXCEPT !.inst1 = w.inst2, !.inst2 = w.inst3,
              !.current_addr = w.current_addr + w.inst3.size,
              !.inst3 = GetInstruction(w.current_addr + w.inst3.size)]

\* the return opcode looked for at the head of the window only
HasReturn_m(w) == w.inst1.op = "RSR"

\* main.py:123-125 and 318-320
HasReturn(w) == w.inst1.op = "RSR" \/ w.inst2.op = "RSR" \/ w.inst3.op = "RSR"

\* the shape without the test of the member pushed second
Shape_m(w, op1, member, op3) ==
    /\ w.inst1.op = op1
    /\ w.inst2.op = "PUSHV"
    /\ w.inst3.op = op3

Shape(w, op1, member, op3) ==
    /\ w.inst1.op = op1
    /\ w.inst2.op = "PUSHV"
    /\ w.inst2.symbol = member
    /\ w.inst3.op = op3

\* the dialogue-entry symbols the loop of main visits, main.py:401
LoopSymbols == <<>>

\* all symbols in declaration order (the commented-out script.symbols)
ScriptSymbols == [j \in 1..Cardinality(DOMAIN script.symbols) |-> script.symbols[j - 1]]

\* main.py:401-410 and 305-316: next iteration of the loop over iter, up to
\* the first window of parse_dia, or the end of the loop
ForSymbol(iter) ==
    /\ pc = "main_dia"
    /\ LET cand == {j \in (symi + 1)..Len(iter) :
                        /\ iter[j].type = "INSTANCE"
                        /\ iter[j].parent = script_const.c_info.idx}
       IN  IF cand = {}
           THEN LET svm_count == GetSymbolByName("SVM_MODULES").int
                IN  /\ pc' = "svm_loop"
                    /\ svm' = [NoSvm EXCEPT !.voice_idx = 1, !.svm_count = svm_count]
                    /\ log' = Append(log, <<"SVM count", svm_count>>)
                    /\ UNCHANGED <<symi, dia>>
           ELSE LET j == CHOOSE j \in cand : \A k \in cand : j <= k
                IN  /\ symi' = j
                    /\ dia' = Window([NoDia EXCEPT !.symbol = iter[j].index], iter[j].address)
                    /\ pc' = "dia_match"
                    /\ UNCHANGED <<svm, log>>
    /\ UNCHANGED <<script, heap, csl, script_const, npcw, stack, npc_cache, script_lines_cache,
                   svm_usages, line_owner, output, nextOid, walks, parses>>

\* main.py:317-342 (one iteration)
DiaMatch ==
    /\ pc = "dia_match"
    /\ IF HasReturn(dia)
       THEN /\ pc' = "dia_resolve"
            /\ UNCHANGED dia
       ELSE LET npc_idx  == IF Shape(dia, "PUSHI", script_const.c_info_npc, "MOVI")
                            THEN dia.inst1.immediate ELSE dia.npc_idx
                info_idx == IF Shape(dia, "PUSHI", script_const.c_info_info, "MOVVF")
                            THEN dia.inst1.immediate ELSE dia.info_idx
                d        == [dia EXCEPT !.npc_idx = npc_idx, !.info_idx = info_idx]
            IN  IF npc_idx # -1 /\ info_idx # -1
                THEN /\ pc' = "dia_resolve"
                     /\ dia' = d
                ELSE /\ pc' = "dia_match"
                     /\ dia' = Slide(d)
    /\ UNCHANGED <<script, heap, csl, script_const, symi, npcw, stack, svm, npc_cache,
                   script_lines_cache, svm_usages, line_owner, output, log, nextOid,
                   walks, parses>>

\* main.py:344-352 with the entry of parse_npc, main.py:109-121
DiaResolve ==
    /\ pc = "dia_resolve"
    /\ IF dia.info_idx = -1
       THEN /\ log' = Append(log, <<"! DIA doesn't contain all expected fields!", dia.symbol>>)
            /\ pc' = "main_dia"
            /\ UNCHANGED <<dia, npcw, nextOid, parses>>
       ELSE IF dia.npc_idx # -1
       THEN IF dia.npc_idx \in DOMAIN npc_cache
            THEN /\ dia' = [dia EXCEPT !.npc = npc_cache[dia.npc_idx]]
                 /\ pc' = "dia_walk"
                 /\ UNCHANGED <<npcw, nextOid, parses, log>>
            ELSE /\ npcw' = Window([NoNpcw EXCEPT !.npc_idx = dia.npc_idx],
                                   script.symbols[dia.npc_idx].address)
                 /\ parses' = Count(parses, dia.npc_idx)
                 /\ pc' = "npc_match"
                 /\ UNCHANGED <<dia, nextOid, log>>
       ELSE /\ dia' = [dia EXCEPT !.npc = NpcUnknown(nextOid)]
            /\ nextOid' = nextOid + 1
            /\ pc' = "dia_walk"
            /\ UNCHANGED <<npcw, parses, log>>
    /\ UNCHANGED <<script, heap, csl, script_const, symi, stack, svm, npc_cache,
                   script_lines_cache, svm_usages, line_owner, output, walks>>

\* main.py:122-159 (one iteration, and the return when the loop breaks)
NpcMatch ==
    /\ pc = "npc_match"
    /\ IF HasReturn(npcw)
       THEN /\ log' = Append(log, <<"! NPC doesn't contain all expected fields!", npcw.npc_idx>>)
            /\ npc_cache' = (npcw.npc_idx :> None) @@ npc_cache
            /\ dia' = [dia EXCEPT !.npc = None]
            /\ pc' = "dia_walk"
            /\ UNCHANGED <<npcw, nextOid>>
       ELSE LET npc_name_idx == IF Shape(npcw, "PUSHV", script_const.c_npc_name, "MOVS")
                                THEN npcw.inst1.symbol ELSE npcw.npc_name_idx
                npc_voice    == IF Shape(npcw, "PUSHI", script_const.c_npc_voice, "MOVI")
                                THEN npcw.inst1.immediate ELSE npcw.npc_voice
                w            == [npcw EXCEPT !.npc_name_idx = npc_name_idx,
                                             !.npc_voice = npc_voice]
            IN  IF npc_name_idx # -1 /\ npc_voice # -1
                THEN LET npc == NpcInfo(nextOid, npcw.npc_idx,
                                        script.symbols[npc_name_idx].str, npc_voice)
                     IN  /\ npc_cache' = (npcw.npc_idx :> npc) @@ npc_cache
                         /\ dia' = [dia EXCEPT !.npc = npc]
                         /\ nextOid' = nextOid + 1
                         /\ npcw' = w
                         /\ pc' = "dia_walk"
                         /\ UNCHANGED log
                ELSE /\ npcw' = Slide(w)
                     /\ pc' = "npc_match"
                     /\ UNCHANGED <<dia, npc_cache, nextOid, log>>
    /\ UNCHANGED <<script, heap, csl, script_const, symi, stack, svm, script_lines_cache,
                   svm_usages, line_owner, output, walks, parses>>

(***************************************************************************)
(* extract_speaker and extract_script_lines.  The recursion of main.py:245 *)
(* is kept as a stack of activation records.  A Python list is an object:  *)
(* result, the memo entry and lines of parse_dia hold the identity of a    *)
(* list in heap, and append/extend change the list of that identity.       *)
(***************************************************************************)
ScriptLineInfo(speaker, type, line_name) ==
    [speaker |-> speaker, type |-> type, line_name |-> line_name]

\* main.py:185-198
extract_speaker(prev_insts) ==
    LET n == Len(prev_insts)
    IN  IF n < 3 \/ prev_insts[n - 2].op # "PUSHVI" \/ prev_insts[n - 1].op # "PUSHVI"
        THEN "NONE"
        ELSE IF prev_insts[n - 2].symbol = script_const.v_self THEN "NPC"
        ELSE IF prev_insts[n - 2].symbol = script_const.v_other THEN "HERO"
        ELSE "NONE"

\* the lines extract_speaker prints, main.py:189 and 197
speaker_log(prev_insts, current_addr) ==
    LET n == Len(prev_insts)
    IN  IF n < 3 \/ prev_insts[n - 2].op # "PUSHVI" \/ prev_insts[n - 1].op # "PUSHVI"
        THEN <<<<"! Unable to extract speaker", current_addr>>>>
        ELSE IF prev_insts[n - 2].symbol \in {script_const.v_self, script_const.v_other}
        THEN <<>>
        ELSE <<<<"! Neither self nor other speak", current_addr>>>>

\* main.py:213-226: line type of the instruction
LineTypeOf(inst) ==
    IF inst.op = "BE"
    THEN IF inst.symbol = script_const.f_aioutput THEN "NORMAL"
         ELSE IF inst.symbol = script_const.f_aioutputsvm THEN "SVM"
         ELSE IF inst.symbol = script_const.f_aioutputsvmo THEN "SVM_OVERLAY"
         ELSE "NONE"
    ELSE IF inst.op = "BL"
    THEN IF inst.address = script_const.f_say THEN "SVM"
         ELSE IF inst.address = script_const.f_say_overlay THEN "SVM_OVERLAY"
         ELSE "NONE"
    ELSE "NONE"

\* main.py:227: the say-with-gold wrapper
IsGoldCall(inst) ==
    /\ inst.op = "BL"
    /\ inst.address # script_const.f_say
    /\ inst.address # script_const.f_say_overlay
    /\ inst.address = script_const.f_say_gold

\* the else branch without the elif for the say-with-gold wrapper
IsSubCall_m(inst) ==
    /\ inst.op = "BL"
    /\ inst.address # script_const.f_say
    /\ inst.address # script_const.f_say_overlay

\* main.py:236: a call of any other script function
IsSubCall(inst) ==
    /\ inst.op = "BL"
    /\ inst.address # script_const.f_say
    /\ inst.address # script_const.f_say_overlay
    /\ inst.address # script_const.f_say_gold

\* main.py:229-235: events and log lines of a say-with-gold call
GoldEvents(prev_insts) ==
    LET n == Len(prev_insts)
    IN  IF n < 1 \/ prev_insts[n].op # "PUSHI"
        THEN <<>>
        ELSE <<ScriptLineInfo(extract_speaker(prev_insts), "SVM",
                              "$GOLD_" \o ToString(prev_insts[n].immediate))>>

GoldLog(prev_insts, current_addr) ==
    LET n == Len(prev_insts)
    IN  speaker_log(prev_insts, current_addr)
        \o (IF n < 1 \/ prev_insts[n].op # "PUSHI"
            THEN <<<<"! Unparseable gold amount op", current_addr>>>>
            ELSE <<>>)

\* main.py:247-264: events and log lines of a classified instruction; the
\* test of main.py:259 compares a symbol with "" and never succeeds
\* the line id taken from any resolvable symbol, constant or not
LineEvents_m(line_type, prev_insts) ==
    LET n         == Len(prev_insts)
        line_name == GetSymbolByIndex(prev_insts[n].symbol)
    IN  IF line_type = "NONE" THEN <<>>
        ELSE IF n < 1 \/ prev_insts[n].op # "PUSHV" THEN <<>>
        ELSE IF line_name # None
        THEN <<ScriptLineInfo(extract_speaker(prev_insts), line_type, line_name.str)>>
        ELSE <<>>

LineEvents(line_type, prev_insts) ==
    LET n         == Len(prev_insts)
        line_name == GetSymbolByIndex(prev_insts[n].symbol)
    IN  IF line_type = "NONE" THEN <<>>
        ELSE IF n < 1 \/ prev_insts[n].op # "PUSHV" THEN <<>>
        ELSE IF line_name # None /\ line_name.is_const
        THEN <<ScriptLineInfo(extract_speaker(prev_insts), line_type, line_name.str)>>
        ELSE <<>>

LineLog(line_type, prev_insts, current_addr) ==
    LET n         == Len(prev_insts)
        line_name == GetSymbolByIndex(prev_insts[n].symbol)
    IN  IF line_type = "NONE" THEN <<>>
        ELSE speaker_log(prev_insts, current_addr)
             \o (IF n < 1 \/ prev_insts[n].op # "PUSHV"
                 THEN <<<<"! Unparseable line_name op", current_addr>>>>
                 ELSE IF line_name # None /\ line_name.is_const THEN <<>>
                 ELSE <<<<"! Line targets unknown/non-const symbol", current_addr>>>>)

\* main.py:202-203: the memo lookup
\* the memo lookup as a truth test (if cached:) instead of a test for None
IsCached_m(fun_addr) ==
    /\ fun_addr \in DOMAIN script_lines_cache
    /\ heap[script_lines_cache[fun_addr]] # <<>>

IsCached(fun_addr) == fun_addr \in DOMAIN script_lines_cache

Cached(fun_addr) == script_lines_cache[fun_addr]

\* main.py:208: result = [] creates a list object
NewList(h) == Append(h, <<>>)

\* main.py:205-208: a new activation whose result is the list object rid
Frame(fun_addr, rid) ==
    [fun_addr |-> fun_addr, current_addr |-> fun_addr, prev_insts |-> <<>>,
     inst |-> GetInstruction(fun_addr), result |-> rid]

\* the new events put in front of the list
Extend_m(h, rid, events) == [h EXCEPT ![rid] = events \o @]

\* main.py:235, 245, 262: result.append / result.extend change the list rid
Extend(h, rid, events) == [h EXCEPT ![rid] = @ \o events]

\* the callee's list changed as well when it is spliced into the caller's
Splice_m(h, caller, callee) ==
    [h EXCEPT ![callee] = h[caller] \o h[callee],
              ![caller] = h[caller] \o h[callee]]

\* main.py:245: result.extend(<list returned by the callee>)
Splice(h, caller, callee) == Extend(h, caller, h[callee])

\* main.py:266-268
Advance(f) ==
    [f EXCEPT !.current_addr = f.current_addr + f.inst.size,
              !.prev_insts = Append(f.prev_insts, f.inst),
              !.inst = GetInstruction(f.current_addr + f.inst.size)]

\* the memo entry of the info function stored when its walk begins
DiaWalk_m ==
    /\ pc = "dia_walk"
    /\ LET info == script.symbols[dia.info_idx]
       IN  IF IsCached(info.address)
           THEN /\ dia' = [dia EXCEPT !.lines = Cached(info.address), !.i = 1]
                /\ pc' = "dia_lines"
                /\ UNCHANGED <<stack, walks, heap, script_lines_cache>>
           ELSE /\ stack' = <<Frame(info.address, Len(heap) + 1)>>
                /\ heap' = NewList(heap)
                /\ script_lines_cache' = (info.address :> (Len(heap) + 1))
                                             @@ script_lines_cache
                /\ walks' = Count(walks, info.address)
                /\ pc' = "walk"
                /\ UNCHANGED dia
    /\ UNCHANGED <<script, csl, script_const, symi, npcw, svm, npc_cache,
                   svm_usages, line_owner, output, log, nextOid, parses>>

\* main.py:354-356: parse_dia calls extract_script_lines on the info function
DiaWalk ==
    /\ pc = "dia_walk"
    /\ LET info == script.symbols[dia.info_idx]
       IN  IF IsCached(info.address)
           THEN /\ dia' = [dia EXCEPT !.lines = Cached(info.address), !.i = 1]
                /\ pc' = "dia_lines"
                /\ UNCHANGED <<stack, walks, heap>>
           ELSE /\ stack' = <<Frame(info.address, Len(heap) + 1)>>
                /\ heap' = NewList(heap)
                /\ walks' = Count(walks, info.address)
                /\ pc' = "walk"
                /\ UNCHANGED dia
    /\ UNCHANGED <<script, csl, script_const, symi, npcw, svm, npc_cache,
                   script_lines_cache, svm_usages, line_owner, output, log, nextOid,
                   parses>>

\* main.py:209-268: one instruction other than the return opcode
WalkInst ==
    /\ pc = "walk"
    /\ LET n    == Len(stack)
           f    == stack[n]
           inst == f.inst
           line_type == LineTypeOf(inst)
       IN  /\ inst.op # "RSR"
           /\ IF IsSubCall(inst)
              THEN IF IsCached(inst.address)
                   THEN /\ stack' = [stack EXCEPT ![n] = Advance(f)]
                        /\ heap' = Splice(heap, f.result, Cached(inst.address))
                        /\ UNCHANGED <<pc, log, walks>>
                   ELSE IF n >= RecursionLimit
                   THEN /\ Crash("RecursionError")
                        /\ UNCHANGED <<stack, walks, heap>>
                   ELSE /\ stack' = Append(stack, Frame(inst.address, Len(heap) + 1))
                        /\ heap' = NewList(heap)
                        /\ walks' = Count(walks, inst.address)
                        /\ UNCHANGED <<pc, log>>
              ELSE IF IsGoldCall(inst)
              THEN /\ stack' = [stack EXCEPT ![n] = Advance(f)]
                   /\ heap' = Extend(heap, f.result, GoldEvents(f.prev_insts))
                   /\ log' = log \o GoldLog(f.prev_insts, f.current_addr)
                   /\ UNCHANGED <<pc, walks>>
              ELSE /\ stack' = [stack EXCEPT ![n] = Advance(f)]
                   /\ heap' = Extend(heap, f.result, LineEvents(line_type, f.prev_insts))
                   /\ log' = log \o LineLog(line_type, f.prev_insts, f.current_addr)
                   /\ UNCHANGED <<pc, walks>>
    /\ UNCHANGED <<script, csl, script_const, symi, dia, npcw, svm, npc_cache,
                   script_lines_cache, svm_usages, line_owner, output, nextOid, parses>>

\* main.py:210-211 and 269-270: the return opcode ends the walk; the caller
\* (main.py:245 or main.py:356) receives the result
WalkReturn ==
    /\ pc = "walk"
    /\ LET n == Len(stack)
           f == stack[n]
       IN  /\ f.inst.op = "RSR"
           /\ script_lines_cache' = (f.fun_addr :> f.result) @@ script_lines_cache
           /\ IF n = 1
              THEN /\ stack' = <<>>
                   /\ dia' = [dia EXCEPT !.lines = f.result, !.i = 1]
                   /\ pc' = "dia_lines"
                   /\ UNCHANGED heap
              ELSE /\ stack' = [SubSeq(stack, 1, n - 1) EXCEPT
                                   ![n - 1] = Advance(stack[n - 1])]
                   /\ heap' = Splice(heap, stack[n - 1].result, f.result)
                   /\ UNCHANGED <<dia, pc>>
    /\ UNCHANGED <<script, csl, script_const, symi, npcw, svm, npc_cache, svm_usages,
                   line_owner, output, log, nextOid, walks, parses>>

(***************************************************************************)
(* parse_dia: the loop over the line events of one dialogue entry.         *)
(***************************************************************************)
\* main.py:366-368: setdefault, then append unless already in the list
UsageAdd(usages, key, line_npc) ==
    LET entry == IF key \in DOMAIN usages THEN usages[key] ELSE <<>>
    IN  (key :> (IF \E j \in 1..Len(entry) : entry[j] = line_npc
                 THEN entry ELSE Append(entry, line_npc)))
        @@ usages

\* main.py:371: line_owner.setdefault(line_name, None)
OwnerSetDefault(owners, line_name) ==
    IF line_name \in DOMAIN owners THEN owners ELSE (line_name :> None) @@ owners

\* main.py:365: line_name[1:]
StripFirst(line_name) == IF line_name = "" THEN "" ELSE Tail(line_name)

\* main.py:357-383 (one iteration of the loop over lines, or its end)
DiaLine ==
    /\ pc = "dia_lines"
    /\ IF dia.i > Len(heap[dia.lines])
       THEN /\ log' = Append(log, <<"dia", dia.symbol, Len(heap[dia.lines])>>)
            /\ pc' = "main_dia"
            /\ UNCHANGED <<dia, svm_usages, line_owner, output, nextOid>>
       ELSE LET line       == heap[dia.lines][dia.i]
                line_name  == line.line_name
                isHero     == line.speaker = "HERO"
                line_npc   == IF isHero THEN NpcHero(nextOid) ELSE dia.npc
                voice_id   == IF line_npc # None THEN line_npc.voice ELSE 0
                npc_name   == IF line_npc # None THEN line_npc.name ELSE "-"
                npc_idx    == IF line_npc # None THEN line_npc.idx ELSE 0
                owners     == OwnerSetDefault(line_owner, line_name)
                prev_owner == owners[line_name]
                line_details == CslGet(line_name)
            IN  /\ dia' = [dia EXCEPT !.i = @ + 1]
                /\ nextOid' = IF isHero THEN nextOid + 1 ELSE nextOid
                /\ pc' = "dia_lines"
                /\ IF line.type = "SVM" \/ line.type = "SVM_OVERLAY"
                   THEN /\ svm_usages' = UsageAdd(svm_usages,
                                                  <<voice_id, StripFirst(line_name)>>, line_npc)
                        /\ UNCHANGED <<line_owner, output, log>>
                   ELSE /\ line_owner' = owners
                        /\ UNCHANGED svm_usages
                        /\ IF prev_owner # None /\ prev_owner = line_npc
                           THEN UNCHANGED <<output, log>>
                           ELSE /\ log' = IF prev_owner # None
                                          THEN Append(log, <<"is used by both", line_name>>)
                                          ELSE log
                                /\ output' = IF line_details # None
                                             THEN Append(output, <<line_name, npc_name, npc_idx,
                                                                   voice_id, line_details.text,
                                                                   line_details.name>>)
                                             ELSE output
    /\ UNCHANGED <<script, heap, csl, script_const, symi, npcw, stack, svm, npc_cache,
                   script_lines_cache, walks, parses>>

(***************************************************************************)
(* Inputs and specifications.                                              *)
(***************************************************************************)
DiaKinds ==
    {[npc |-> 3, info |-> "F_HELLO"],
     [npc |-> 4, info |-> "F_HELLO"],
     [npc |-> 3, info |-> "F_HERO"],
     [npc |-> 5, info |-> "F_HERO"],
     [npc |-> -1, info |-> "F_HERO"],
     [npc |-> 3, info |-> "F_SVM"],
     [npc |-> 4, info |-> "F_SVM"],
     [npc |-> 5, info |-> "F_SVM"],
     [npc |-> -1, info |-> "F_SVM"],
     [npc |-> 3, info |-> "F_CALLER"],
     [npc |-> 5, info |-> "F_CALLER"],
     [npc |-> 3, info |-> ""],
     [npc |-> 4, info |-> "F_LOOP"],
     [npc |-> 3, info |-> "F_PING"],
     [npc |-> -1, info |-> "F_HELLO"],
     [npc |-> 3, info |-> "F_ODD"],
     [npc |-> 5, info |-> "F_ODD"]}

DiaLists == UNION {[1..n -> DiaKinds] : n \in 1..MaxDia}

LineIds(cnt) ==
    {"DIA_3_01", "DIA_4_01"}
    \cup {"SVM_" \o ToString(s) \o "_HI" : s \in 1..(cnt - 1)}
    \cup {"SVM_" \o ToString(s) \o "_BYE" : s \in 1..(cnt - 1)}

Settings ==
    {[cnt |-> 3, missing |-> 0, lost |-> {}],
     [cnt |-> 3, missing |-> 1, lost |-> {}],
     [cnt |-> 16, missing |-> 0, lost |-> {"DIA_4_01", "SVM_2_HI"}]}

\* instructions that belong to neither field idiom of an NPC constructor
Junk ==
    {<<>>,
     <<Op("ADD")>>,
     <<PushI(7), Op("ADD")>>,
     <<PushI(7), PushV("PAR_TEXT"), Op("MOVI")>>,
     <<PushV("NAME_B"), PushV("PAR_TEXT"), Op("MOVS")>>,
     <<PushV("NAME_B"), PushV("C_NPC.NAME")>>,
     <<PushV("C_NPC.VOICE"), Op("MOVI")>>}

NpcVariants == [order : {"NV", "VN"}, j0 : Junk, j1 : Junk]

DefaultNpcV == [order |-> "NV", j0 |-> <<>>, j1 |-> <<>>]

\* symbol index of NPC_V
NpcVIdx == Len(FixedSyms(0))

Params ==
    {[dias |-> d, cnt |-> c.cnt, missing |-> c.missing, lost |-> c.lost,
      npcv |-> DefaultNpcV] : d \in DiaLists, c \in Settings}
    \cup {[dias |-> <<[npc |-> NpcVIdx, info |-> "F_HELLO"]>>, cnt |-> 3, missing |-> 0,
           lost |-> {}, npcv |-> v] : v \in NpcVariants}

Init ==
    /\ \E p \in Params :
          /\ script = Image(p)
          /\ csl = [id \in LineIds(p.cnt) \ p.lost |-> Message(id)]
          /\ script_const = ScriptConstants(script)
    /\ pc = "main_dia"
    /\ symi = 0
    /\ dia = NoDia
    /\ npcw = NoNpcw
    /\ stack = <<>>
    /\ svm = NoSvm
    /\ npc_cache = <<>>
    /\ script_lines_cache = <<>>
    /\ svm_usages = <<>>
    /\ line_owner = <<>>
    /\ output = <<>>
    /\ heap = <<>>
    /\ log = <<>>
    /\ nextOid = 1
    /\ walks = <<>>
    /\ parses = <<>>

\* main as written: the dialogue loop runs over LoopSymbols
Next ==
    \/ ForSymbol(LoopSymbols)
    \/ SvmInit
    \/ SvmWalk
    \/ SvmRow
    \/ MainDone

Spec == Init /\ [][Next]_vars

\* parse_dia driven over every dialogue entry of the image in declaration
\* order with shared maps, followed by the voice-table pass of main
NextDia ==
    \/ ForSymbol(ScriptSymbols)
    \/ DiaMatch
    \/ DiaResolve
    \/ NpcMatch
    \/ DiaWalk
    \/ WalkInst
    \/ WalkReturn
    \/ DiaLine
    \/ SvmInit
    \/ SvmWalk
    \/ SvmRow
    \/ MainDone

SpecDia == Init /\ [][NextDia]_vars

(***************************************************************************)
(* Properties.                                                             *)
(***************************************************************************)
Rows == {output[j] : j \in 1..Len(output)}

\* the dialogue-entry symbols of the image: instances of C_INFO
DiaEntries ==
    {i \in DOMAIN script.symbols :
        /\ script.symbols[i].type = "INSTANCE"
        /\ script.symbols[i].parent = script_const.c_info.idx}

\* parse_dia was run on dialogue entry i (it reports every entry it ends)
Processed(i) ==
    \E j \in 1..Len(log) :
        /\ log[j][1] \in {"dia", "! DIA doesn't contain all expected fields!"}
        /\ log[j][2] = i

\* entry i assigns npc, then the information function named f
EntryIs(i, npc, f) ==
    LET a == script.symbols[i].address
    IN  /\ script.code[a].op = "PUSHI"
        /\ script.code[a].immediate = npc
        /\ script.code[a + 11].op = "PUSHI"
        /\ script.code[a + 11].immediate = GetSymbolByName(f).index

\* C1: when the run has ended, every dialogue-entry symbol of the image has
\* been processed, and an image whose entry has NPC index 3 and an info
\* function with one normal line DIA_3_01 spoken by SELF has produced the row
\* of that line with NPC 3's name, index 3 and NPC 3's voice id.
C1_EveryEntryProcessed ==
    pc = "done" =>
        /\ \A i \in DiaEntries : Processed(i)
        /\ (\E i \in DiaEntries : EntryIs(i, 3, "F_HELLO")) =>
              <<"DIA_3_01", "Alice", 3, 1, "Hello.", "dia_3_01.wav">> \in Rows

\* C2: a line id mentioned several times by the same NPC yields at most one
\* row: no two rows of the output carry the same line id and the same NPC.
C2_NoDuplicateRow ==
    \A j, k \in 1..Len(output) :
        (j < k /\ output[j][1] = output[k][1]) =>
            <<output[j][2], output[j][3], output[j][4]>>
                # <<output[k][2], output[k][3], output[k][4]>>

\* the first row written for line id x
FirstRow(x) ==
    output[CHOOSE j \in 1..Len(output) :
              /\ output[j][1] = x
              /\ \A k \in 1..(j - 1) : output[k][1] # x]

\* C3: once a normal line X of a present NPC has been processed, the first-
\* owner map maps X to the NPC of the first event with that line id (the NPC
\* shown in the first row written for X).
C3_FirstOwnerRecorded ==
    \A x \in DOMAIN line_owner :
        ((\E r \in Rows : r[1] = x) /\ FirstRow(x)[2] # "-") =>
            /\ line_owner[x] # None
            /\ line_owner[x].name = FirstRow(x)[2]
            /\ line_owner[x].idx = FirstRow(x)[3]

IsHeroValue(n) == n # None /\ n.name = "Hero" /\ n.idx = 0 /\ n.voice = 15

\* C4: a line event spoken by the hero is displayed as Hero, index 0, voice
\* id 15 and recorded under a voice-usage key of voice id 15 with the hero as
\* owner, whatever NPC the dialogue entry resolved to; every row of voice
\* slot 15 displays Hero and index 0.
C4_HeroOverride ==
    [][/\ (pc = "dia_lines" /\ dia.i <= Len(heap[dia.lines])
           /\ heap[dia.lines][dia.i].speaker = "HERO") =>
             LET ev  == heap[dia.lines][dia.i]
                 key == <<15, StripFirst(ev.line_name)>>
             IN  IF ev.type = "NORMAL"
                 THEN /\ svm_usages' = svm_usages
                      /\ \/ output' = output
                         \/ output' = Append(output,
                                <<ev.line_name, "Hero", 0, 15,
                                  output'[Len(output')][5], output'[Len(output')][6]>>)
                 ELSE /\ output' = output
                      /\ key \in DOMAIN svm_usages'
                      /\ \E j \in 1..Len(svm_usages'[key]) :
                            IsHeroValue(svm_usages'[key][j])
                      /\ \A k \in DOMAIN svm_usages' \ {key} :
                            k \in DOMAIN svm_usages /\ svm_usages'[k] = svm_usages[k]
       /\ (pc = "svm_rows" /\ svm.voice_idx = 15 /\ output' # output) =>
             /\ output'[Len(output')][2] = "Hero"
             /\ output'[Len(output')][3] = 0
             /\ output'[Len(output')][4] = 15
      ]_vars

\* witness of C4: hero lines of a dialogue entry whose NPC is absent were
\* shown and recorded, and the row of slot 15 was written
C4_Witness ==
    /\ pc = "done"
    /\ 5 \in DOMAIN npc_cache /\ npc_cache[5] = None
    /\ <<"DIA_3_01", "Hero", 0, 15, "Hello.", "dia_3_01.wav">> \in Rows
    /\ <<15, "HI">> \in DOMAIN svm_usages
    /\ \E r \in Rows : r[1] = "SVM_15_HI" /\ r[2] = "Hero" /\ r[3] = 0 /\ r[4] = 15

\* C5: the walk never enters an address whose walk has not completed: no
\* two activations on the stack walk the same address, and a run that was
\* aborted reports a cyclic call graph.
C5_CycleDetected ==
    /\ \A j, k \in 1..Len(stack) : j # k => stack[j].fun_addr # stack[k].fun_addr
    /\ (pc = "crashed" /\ stack # <<>>) =>
          log[Len(log)] = <<"Traceback", "CyclicCallGraph">>

\* the addresses a body calls as script functions, up to its return opcode
RECURSIVE SubCalls(_)
SubCalls(addr) ==
    LET inst == GetInstruction(addr)
    IN  IF inst.op = "RSR" THEN {}
        ELSE (IF IsSubCall(inst) THEN {inst.address} ELSE {})
             \cup SubCalls(addr + inst.size)

RECURSIVE Closure(_)
Closure(S) ==
    LET T == S \cup UNION {SubCalls(a) : a \in S}
    IN  IF T = S THEN S ELSE Closure(T)

OnCycle(a) == a \in Closure(SubCalls(a))

\* C6: outside cyclic call graphs every function body is walked and every
\* NPC body is parsed at most once; an entry of either cache never changes,
\* and a request for a cached key returns the cached value.
C6_PopulateOnce ==
    [][/\ \A a \in DOMAIN walks' : walks'[a] <= 1 \/ OnCycle(a)
       /\ \A k \in DOMAIN parses' : parses'[k] <= 1
       /\ \A a \in DOMAIN script_lines_cache :
             a \in DOMAIN script_lines_cache'
             /\ script_lines_cache'[a] = script_lines_cache[a]
             /\ heap'[script_lines_cache'[a]] = heap[script_lines_cache[a]]
       /\ \A k \in DOMAIN npc_cache :
             k \in DOMAIN npc_cache' /\ npc_cache'[k] = npc_cache[k]
       /\ (pc = "dia_walk"
           /\ script.symbols[dia.info_idx].address \in DOMAIN script_lines_cache) =>
             /\ dia'.lines = script_lines_cache[script.symbols[dia.info_idx].address]
             /\ heap' = heap
             /\ walks' = walks
       /\ (pc = "dia_resolve" /\ dia.info_idx # -1 /\ dia.npc_idx \in DOMAIN npc_cache) =>
             /\ dia'.npc = npc_cache[dia.npc_idx]
             /\ parses' = parses /\ log' = log
       /\ (pc = "walk" /\ stack[Len(stack)].inst.op = "BL"
           /\ stack[Len(stack)].inst.address \in DOMAIN script_lines_cache) =>
             /\ Len(stack') = Len(stack)
             /\ stack'[Len(stack)].result = stack[Len(stack)].result
             /\ heap'[stack[Len(stack)].result] =
                   heap[stack[Len(stack)].result]
                   \o heap[script_lines_cache[stack[Len(stack)].inst.address]]
             /\ walks' = walks
      ]_vars

\* witness of C6: an absent NPC and an empty event sequence were cached and
\* requested again
C6_Witness ==
    /\ pc = "done"
    /\ Cardinality(DiaEntries) = 2
    /\ \A i \in DiaEntries : EntryIs(i, 5, "F_CALLER")
    /\ 5 \in DOMAIN npc_cache
    /\ npc_cache[5] = None /\ parses[5] = 1
    /\ \E a \in DOMAIN script_lines_cache :
          heap[script_lines_cache[a]] = <<>> /\ walks[a] = 1

\* the speaker read 3 and 2 positions before a call
LookBackSpeaker(prev) ==
    LET n == Len(prev)
    IN  IF n >= 3 /\ prev[n - 2].op = "PUSHVI" /\ prev[n - 1].op = "PUSHVI"
        THEN CASE prev[n - 2].symbol = GetSymbolByName("SELF").index -> "NPC"
               [] prev[n - 2].symbol = GetSymbolByName("OTHER").index -> "HERO"
               [] OTHER -> "NONE"
        ELSE "NONE"

\* C7: a direct call of the say-with-gold wrapper that follows a literal push
\* of N adds exactly one event, of kind voiceSet with line id "$GOLD_" + N and
\* the speaker of the look-back rule; the wrapper is not walked and the
\* generic line-identifier extraction is not run for the call.
C7_GoldSynthesis ==
    [][(/\ pc = "walk"
        /\ stack[Len(stack)].inst.op = "BL"
        /\ stack[Len(stack)].inst.address = GetSymbolByName("B_SAY_GOLD").address
        /\ stack[Len(stack)].prev_insts # <<>>
        /\ stack[Len(stack)].prev_insts[Len(stack[Len(stack)].prev_insts)].op = "PUSHI") =>
          LET n    == Len(stack)
              f    == stack[n]
              prev == f.prev_insts
          IN  /\ Len(stack') = n
              /\ stack'[n].result = f.result
              /\ heap'[f.result] =
                    Append(heap[f.result],
                           [speaker   |-> LookBackSpeaker(prev),
                            type      |-> "SVM",
                            line_name |-> "$GOLD_" \o ToString(prev[Len(prev)].immediate)])
              /\ stack'[n].current_addr = f.current_addr + f.inst.size
              /\ walks' = walks
              /\ script_lines_cache' = script_lines_cache
              /\ \A j \in (Len(log) + 1)..Len(log') :
                    log'[j][1] \notin {"! Unparseable line_name op",
                                       "! Line targets unknown/non-const symbol"}
      ]_vars

\* witness of C7: a walk met the call with the literal 50 and stored the event
C7_Witness ==
    /\ pc = "done"
    /\ GetSymbolByName("B_SAY_GOLD").address \notin DOMAIN walks
    /\ \E a \in DOMAIN script_lines_cache :
          \E j \in 1..Len(heap[script_lines_cache[a]]) :
              heap[script_lines_cache[a]][j] =
                  [speaker |-> "NPC", type |-> "SVM", line_name |-> "$GOLD_50"]

\* the same NPC: both absent, or the same name, index and voice id
SameNpc(a, b) ==
    \/ a = None /\ b = None
    \/ /\ a # None /\ b # None
       /\ a.name = b.name /\ a.idx = b.idx /\ a.voice = b.voice

\* C8: the owner list of every voice-usage key holds each resolved NPC, the
\* hero, the unknown NPC and the absent NPC included, at most once.
C8_OwnersUnique ==
    \A key \in DOMAIN svm_usages :
        \A j, k \in 1..Len(svm_usages[key]) :
            j < k => ~SameNpc(svm_usages[key][j], svm_usages[key][k])

\* C9: the row of a (member, lineId) pair of slot s has voice id s and the
\* owner decided from the usages recorded under (s, member): the hero for
\* s = 15, Unknown<s> and s without usage, the single owner's name and index
\* (Unknown and -1 for an absent NPC), else the names joined by commas in
\* recording order and s.
C9_OwnerDisplay ==
    [][(pc = "svm_rows" /\ svm.k <= Len(svm.voicelines)) =>
          LET s      == svm.voice_idx
              member == svm.voicelines[svm.k][1]
              lineId == svm.voicelines[svm.k][2]
              key    == <<s, member>>
              used   == key \in DOMAIN svm_usages
              owners == svm_usages[key]
              nameOf(n) == IF n = None THEN "Unknown" ELSE n.name
              name   == CASE s = 15 -> "Hero"
                          [] s # 15 /\ ~used -> "Unknown" \o ToString(s)
                          [] s # 15 /\ used /\ Len(owners) = 1 -> nameOf(owners[1])
                          [] OTHER -> Join([j \in 1..Len(owners) |-> nameOf(owners[j])])
              idx    == CASE s = 15 -> 0
                          [] s # 15 /\ ~used -> s
                          [] s # 15 /\ used /\ Len(owners) = 1 ->
                                IF owners[1] = None THEN -1 ELSE owners[1].idx
                          [] OTHER -> s
          IN  /\ s \in 1..(svm.svm_count - 1)
              /\ IF lineId \in DOMAIN csl
                 THEN output' = Append(output, <<lineId, name, idx, s,
                                                 csl[lineId].text, csl[lineId].name>>)
                 ELSE output' = output
      ]_vars

\* witness of C9: rows of a slot used by two NPCs and of a slot never used
C9_Witness ==
    /\ pc = "done"
    /\ <<1, "HI">> \in DOMAIN svm_usages
    /\ Len(svm_usages[<<1, "HI">>]) = 2
    /\ <<"SVM_1_HI", "Alice,Bob", 1, 1, "text of SVM_1_HI", "SVM_1_HI.wav">> \in Rows
    /\ <<"SVM_2_BYE", "Unknown2", 2, 2, "text of SVM_2_BYE", "SVM_2_BYE.wav">> \in Rows

\* C10: when the run has ended, every voice slot whose function exists has
\* its rows in the output, also when the function of another slot is missing.
C10_MissingSlotRecoverable ==
    pc \in {"done", "crashed"} =>
        \A s \in 1..(GetSymbolByName("SVM_MODULES").int - 1) :
            GetSymbolByName("SVM_" \o ToString(s)) # None =>
                \E r \in Rows : r[4] = s /\ r[1] \in DOMAIN csl

\* the line event the aggregator is about to process
CurrentLine == heap[dia.lines][dia.i]

AtLine == pc = "dia_lines" /\ dia.i <= Len(heap[dia.lines])

\* C11: when the window over an NPC body holds the return opcode before name
\* and voice id are both captured, parse_npc stores the absent marker for
\* that index and returns it, a later request for the index is answered from
\* the cache without parsing, the run goes on, and the events of a dialogue
\* entry of that NPC whose speaker is the NPC or unknown are displayed with
\* name "-", index 0 and voice id 0 (a voiceSet event is recorded under voice
\* id 0 with the absent owner).
C11_IncompleteNpc ==
    [][/\ (/\ pc = "npc_match"
           /\ "RSR" \in {npcw.inst1.op, npcw.inst2.op, npcw.inst3.op}
           /\ (npcw.npc_name_idx = -1 \/ npcw.npc_voice = -1)) =>
             /\ npcw.npc_idx \in DOMAIN npc_cache'
             /\ npc_cache'[npcw.npc_idx] = None
             /\ dia'.npc = None
             /\ pc' = "dia_walk"
             /\ output' = output
       /\ (/\ pc = "dia_resolve" /\ dia.info_idx # -1
           /\ dia.npc_idx \in DOMAIN npc_cache
           /\ npc_cache[dia.npc_idx] = None) =>
             /\ dia'.npc = None
             /\ pc' = "dia_walk"
             /\ parses' = parses /\ npcw' = npcw /\ npc_cache' = npc_cache
       /\ (AtLine /\ dia.npc = None /\ CurrentLine.speaker # "HERO") =>
             IF CurrentLine.type = "NORMAL"
             THEN /\ output' = IF CurrentLine.line_name \in DOMAIN csl
                               THEN Append(output,
                                      <<CurrentLine.line_name, "-", 0, 0,
                                        csl[CurrentLine.line_name].text,
                                        csl[CurrentLine.line_name].name>>)
                               ELSE output
                  /\ svm_usages' = svm_usages
             ELSE /\ output' = output
                  /\ <<0, StripFirst(CurrentLine.line_name)>> \in DOMAIN svm_usages'
                  /\ \E j \in 1..Len(svm_usages'[<<0, StripFirst(CurrentLine.line_name)>>]) :
                        svm_usages'[<<0, StripFirst(CurrentLine.line_name)>>][j] = None
       /\ (pc' = "crashed" /\ pc # "crashed") => pc \in {"walk", "svm_loop"}
      ]_vars

\* witness of C11: NPC 5 was parsed once and cached as absent, two dialogue
\* entries used it, and their lines were displayed and recorded
C11_Witness ==
    /\ pc = "done"
    /\ 5 \in DOMAIN npc_cache /\ npc_cache[5] = None
    /\ 5 \in DOMAIN parses /\ parses[5] = 1
    /\ \E i \in DiaEntries : EntryIs(i, 5, "F_CALLER")
    /\ \E i \in DiaEntries : EntryIs(i, 5, "F_ODD")
    /\ <<"DIA_3_01", "-", 0, 0, "Hello.", "dia_3_01.wav">> \in Rows
    /\ <<0, "HI">> \in DOMAIN svm_usages
    /\ svm_usages[<<0, "HI">>] = <<None>>

\* the instructions of the body at addr up to its first return opcode
RECURSIVE BodyInsts(_)
BodyInsts(addr) ==
    LET inst == GetInstruction(addr)
    IN  IF inst.op = "RSR" THEN <<>> ELSE <<inst>> \o BodyInsts(addr + inst.size)

\* position i of body b starts the field assignment op1, push member, op3
IdiomAt(b, i, op1, member, op3) ==
    /\ i + 2 <= Len(b)
    /\ b[i].op = op1
    /\ b[i + 1].op = "PUSHV"
    /\ b[i + 1].symbol = GetSymbolByName(member).index
    /\ b[i + 2].op = op3

\* the body of the dialogue entry in work assigns its info function / NPC
EntryHasInfo ==
    LET b == BodyInsts(script.symbols[dia.symbol].address)
    IN  \E i \in 1..Len(b) : IdiomAt(b, i, "PUSHI", "C_INFO.INFORMATION", "MOVVF")

EntryHasNpc ==
    LET b == BodyInsts(script.symbols[dia.symbol].address)
    IN  \E i \in 1..Len(b) : IdiomAt(b, i, "PUSHI", "C_INFO.NPC", "MOVI")

IsUnknownValue(n) == n # None /\ n.name = "Unknown" /\ n.idx = -1 /\ n.voice = 0

\* C12: a dialogue entry whose body does not assign the info function before
\* its return opcode is skipped with a warning: no row is written and the
\* first-owner map, the voice-usage map and both caches stay as they are.  An
\* entry that assigns the info function but no NPC index is walked, and its
\* lines not spoken by the hero are attributed to the unknown NPC (name
\* Unknown, index -1, voice id 0).
C12_EntryFields ==
    [][/\ (pc \in {"dia_match", "dia_resolve"} /\ ~EntryHasInfo) =>
             /\ output' = output
             /\ line_owner' = line_owner
             /\ svm_usages' = svm_usages
             /\ npc_cache' = npc_cache
             /\ script_lines_cache' = script_lines_cache
             /\ heap' = heap
             /\ pc' \in {"dia_match", "dia_resolve", "main_dia"}
             /\ pc = "dia_resolve" =>
                   /\ pc' = "main_dia"
                   /\ log' = Append(log, <<"! DIA doesn't contain all expected fields!",
                                           dia.symbol>>)
       /\ (pc = "dia_resolve" /\ EntryHasInfo /\ ~EntryHasNpc) =>
             /\ pc' = "dia_walk"
             /\ IsUnknownValue(dia'.npc)
             /\ parses' = parses /\ npc_cache' = npc_cache
       /\ (AtLine /\ ~EntryHasNpc /\ CurrentLine.speaker # "HERO") =>
             IF CurrentLine.type = "NORMAL"
             THEN output' = IF CurrentLine.line_name \in DOMAIN csl
                            THEN Append(output,
                                   <<CurrentLine.line_name, "Unknown", -1, 0,
                                     csl[CurrentLine.line_name].text,
                                     csl[CurrentLine.line_name].name>>)
                            ELSE output
             ELSE /\ output' = output
                  /\ <<0, StripFirst(CurrentLine.line_name)>> \in DOMAIN svm_usages'
                  /\ \E j \in 1..Len(svm_usages'[<<0, StripFirst(CurrentLine.line_name)>>]) :
                        IsUnknownValue(svm_usages'[<<0, StripFirst(CurrentLine.line_name)>>][j])
      ]_vars

\* witness of C12: one entry without info function was skipped with the
\* warning and nothing else, one entry without NPC index gave a row
C12_Witness ==
    /\ pc = "done"
    /\ Cardinality(DiaEntries) = 2
    /\ \E i \in DiaEntries :
          /\ \E j \in 1..Len(log) :
                log[j] = <<"! DIA doesn't contain all expected fields!", i>>
          /\ script.code[script.symbols[i].address].immediate = 3
    /\ npc_cache = <<>>
    /\ Cardinality(DOMAIN script_lines_cache) = 1
    /\ <<"DIA_3_01", "Unknown", -1, 0, "Hello.", "dia_3_01.wav">> \in Rows

\* position i of body b starts one of the two field idioms of an NPC
NpcIdiomAt(b, i) ==
    \/ IdiomAt(b, i, "PUSHV", "C_NPC.NAME", "MOVS")
    \/ IdiomAt(b, i, "PUSHI", "C_NPC.VOICE", "MOVI")

\* body b without the instructions that belong to neither idiom
RECURSIVE StripFrom(_, _)
StripFrom(b, j) ==
    IF j > Len(b) THEN <<>>
    ELSE (IF \E i \in {j - 2, j - 1, j} : i >= 1 /\ NpcIdiomAt(b, i)
          THEN <<b[j]>> ELSE <<>>)
         \o StripFrom(b, j + 1)

StripBody(b) == StripFrom(b, 1)

\* main.py:112-159 on a body given as the sequence of its instructions up
\* to the return opcode: the window at position i with the captures so far
RECURSIVE parse_npc_at(_, _, _, _)
parse_npc_at(b, i, npc_name_idx, npc_voice) ==
    IF i + 2 > Len(b) THEN None
    ELSE LET name_idx == IF IdiomAt(b, i, "PUSHV", "C_NPC.NAME", "MOVS")
                         THEN b[i].symbol ELSE npc_name_idx
             voice    == IF IdiomAt(b, i, "PUSHI", "C_NPC.VOICE", "MOVI")
                         THEN b[i].immediate ELSE npc_voice
         IN  IF name_idx # -1 /\ voice # -1
             THEN [name |-> script.symbols[name_idx].str, voice |-> voice]
             ELSE parse_npc_at(b, i + 1, name_idx, voice)

parse_npc(b) == parse_npc_at(b, 1, -1, -1)

HasBothIdioms(b) ==
    /\ \E i \in 1..Len(b) : IdiomAt(b, i, "PUSHV", "C_NPC.NAME", "MOVS")
    /\ \E i \in 1..Len(b) : IdiomAt(b, i, "PUSHI", "C_NPC.VOICE", "MOVI")

\* C13: for an NPC body that holds both field idioms, in either order, the
\* record parse_npc stored is the record of the body without the instructions
\* that match neither idiom: the same name and voice id, under the NPC's index.
C13_JunkIndependent ==
    \A k \in DOMAIN npc_cache :
        LET b == BodyInsts(script.symbols[k].address)
        IN  HasBothIdioms(b) =>
              /\ npc_cache[k] # None
              /\ parse_npc(StripBody(b)) # None
              /\ npc_cache[k].name = parse_npc(StripBody(b)).name
              /\ npc_cache[k].voice = parse_npc(StripBody(b)).voice
              /\ npc_cache[k].idx = k

\* witness of C13: a body with the voice idiom first, a voice-like assignment
\* to another variable before it and two instructions of other sizes between
\* the idioms was parsed
C13_Witness ==
    /\ pc = "done"
    /\ NpcVIdx \in DOMAIN npc_cache
    /\ LET b == BodyInsts(script.symbols[NpcVIdx].address)
       IN  /\ Len(b) = 11
           /\ b[1].op = "PUSHI" /\ b[1].immediate = 7 /\ b[3].op = "MOVI"
           /\ b[4].op = "PUSHI" /\ b[4].immediate = 2 /\ b[6].op = "MOVI"
           /\ b[8].op = "ADD"
           /\ b[11].op = "MOVS"
           /\ Len(StripBody(b)) = 6
    /\ npc_cache[NpcVIdx].name = "Alice"
    /\ npc_cache[NpcVIdx].voice = 2
    /\ <<"DIA_3_01", "Alice", NpcVIdx, 2, "Hello.", "dia_3_01.wav">> \in Rows

\* C14: a normal event whose line id is not in the line-text database gives
\* no row and a diagnostic log line, and a voice-table line id that is not in
\* the database gives no row and a diagnostic log line.
C14_DropLogged ==
    [][/\ (AtLine /\ CurrentLine.type = "NORMAL"
           /\ CurrentLine.line_name \notin DOMAIN csl) =>
             /\ output' = output
             /\ Len(log') > Len(log)
       /\ (pc = "svm_rows" /\ svm.k <= Len(svm.voicelines)
           /\ svm.voicelines[svm.k][2] \notin DOMAIN csl) =>
             /\ output' = output
             /\ Len(log') > Len(log)
      ]_vars

\* the kind of line a triggering call emits: the built-in emit calls and
\* the plain and overlay wrappers
TriggerKind(inst) ==
    CASE inst.op = "BE" /\ inst.symbol = GetSymbolByName("AI_OUTPUT").index -> "NORMAL"
      [] inst.op = "BE" /\ inst.symbol = GetSymbolByName("AI_OUTPUTSVM").index -> "SVM"
      [] inst.op = "BE" /\ inst.symbol = GetSymbolByName("AI_OUTPUTSVM_OVERLAY").index
            -> "SVM_OVERLAY"
      [] inst.op = "BL" /\ inst.address = GetSymbolByName("B_SAY").address -> "SVM"
      [] inst.op = "BL" /\ inst.address = GetSymbolByName("B_SAY_OVERLAY").address
            -> "SVM_OVERLAY"
      [] OTHER -> "NONE"

\* the instruction 1 back pushes a resolvable compile-time-constant symbol
OperandOk(prev) ==
    /\ Len(prev) >= 1
    /\ prev[Len(prev)].op = "PUSHV"
    /\ prev[Len(prev)].symbol \in DOMAIN script.symbols
    /\ script.symbols[prev[Len(prev)].symbol].is_const

\* C15: a triggering call adds an event if and only if the instruction 1
\* back is push-variable of a resolvable compile-time-constant symbol, and
\* then exactly one, with the kind of the call, the symbol's string as line
\* id and the speaker of the look-back rule (npc for SELF 3 back, hero for
\* OTHER, unknown when 3 back and 2 back are not both push-reference or fewer
\* than 3 instructions precede); otherwise no event is added and a diagnostic
\* line is logged.
C15_LookBack ==
    [][(pc = "walk" /\ TriggerKind(stack[Len(stack)].inst) # "NONE") =>
          LET f    == stack[Len(stack)]
              prev == f.prev_insts
          IN  /\ Len(stack') = Len(stack)
              /\ stack'[Len(stack)].result = f.result
              /\ IF OperandOk(prev)
                 THEN heap'[f.result] =
                         Append(heap[f.result],
                                [speaker   |-> LookBackSpeaker(prev),
                                 type      |-> TriggerKind(f.inst),
                                 line_name |-> script.symbols[prev[Len(prev)].symbol].str])
                 ELSE /\ heap'[f.result] = heap[f.result]
                      /\ Len(log') > Len(log)
      ]_vars

\* witness of C15: the walk of F_ODD kept the four events with a constant
\* line id, three of them with unknown speaker, and dropped the others
C15_Witness ==
    /\ pc = "done"
    /\ GetSymbolByName("F_ODD").address \in DOMAIN script_lines_cache
    /\ heap[script_lines_cache[GetSymbolByName("F_ODD").address]] =
          <<[speaker |-> "NONE", type |-> "NORMAL", line_name |-> "DIA_3_01"],
            [speaker |-> "NONE", type |-> "NORMAL", line_name |-> "DIA_4_01"],
            [speaker |-> "NONE", type |-> "SVM", line_name |-> "$HI"],
            [speaker |-> "HERO", type |-> "NORMAL", line_name |-> ""]>>
    /\ GetSymbolByName("F_HELLO").address \in DOMAIN script_lines_cache
    /\ heap[script_lines_cache[GetSymbolByName("F_HELLO").address]] =
          <<[speaker |-> "NPC", type |-> "NORMAL", line_name |-> "DIA_3_01"]>>
    /\ \E j \in 1..Len(log) : log[j][1] = "! Unparseable line_name op"
    /\ \E j \in 1..Len(log) : log[j][1] = "! Line targets unknown/non-const symbol"

\* a direct call of a script function that is none of the three wrappers
IsPlainCall(inst) ==
    /\ inst.op = "BL"
    /\ inst.address \notin {GetSymbolByName("B_SAY").address,
                            GetSymbolByName("B_SAY_OVERLAY").address,
                            GetSymbolByName("B_SAY_GOLD").address}

\* the events an instruction other than a plain call adds by itself
OwnEvents(inst, prev) ==
    IF TriggerKind(inst) # "NONE"
    THEN IF OperandOk(prev)
         THEN <<[speaker   |-> LookBackSpeaker(prev),
                 type      |-> TriggerKind(inst),
                 line_name |-> script.symbols[prev[Len(prev)].symbol].str]>>
         ELSE <<>>
    ELSE IF inst.op = "BL" /\ inst.address = GetSymbolByName("B_SAY_GOLD").address
              /\ Len(prev) >= 1 /\ prev[Len(prev)].op = "PUSHI"
    THEN <<[speaker   |-> LookBackSpeaker(prev),
            type      |-> "SVM",
            line_name |-> "$GOLD_" \o ToString(prev[Len(prev)].immediate)]>>
    ELSE <<>>

\* the events of the instructions from addr (preceded by prev) up to the
\* address stop or the first return opcode, in instruction order, with the
\* complete sequence of a called function in the place of its call
RECURSIVE OrderedEvents(_, _, _)
OrderedEvents(addr, prev, stop) ==
    LET inst == GetInstruction(addr)
    IN  IF addr = stop \/ inst.op = "RSR" THEN <<>>
        ELSE (IF IsPlainCall(inst)
              THEN OrderedEvents(inst.address, <<>>, -1)
              ELSE OwnEvents(inst, prev))
             \o OrderedEvents(addr + inst.size, Append(prev, inst), stop)

\* C16: the sequence stored for an address lists the events in instruction
\* order up to the first return opcode with each called function's complete
\* sequence at the position of its call, for fresh and for memoized callees;
\* the result of a walk in progress is that sequence up to the instruction
\* in work.
C16_EventOrder ==
    /\ \A a \in DOMAIN script_lines_cache :
          heap[script_lines_cache[a]] = OrderedEvents(a, <<>>, -1)
    /\ \A j \in 1..Len(stack) :
          heap[stack[j].result] = OrderedEvents(stack[j].fun_addr, <<>>,
                                                stack[j].current_addr)
    /\ pc = "dia_lines" =>
          heap[dia.lines] = OrderedEvents(script.symbols[dia.info_idx].address, <<>>, -1)

\* witness of C16: F_CALLER was walked with F_HELPER walked once and taken
\* from the memo once, between the caller's own events
C16_Witness ==
    /\ pc = "done"
    /\ GetSymbolByName("F_CALLER").address \in DOMAIN script_lines_cache
    /\ heap[script_lines_cache[GetSymbolByName("F_CALLER").address]] =
          <<[speaker |-> "NPC", type |-> "NORMAL", line_name |-> "DIA_4_01"],
            [speaker |-> "NPC", type |-> "NORMAL", line_name |-> "DIA_3_01"],
            [speaker |-> "NPC", type |-> "NORMAL", line_name |-> "DIA_4_01"],
            [speaker |-> "NPC", type |-> "NORMAL", line_name |-> "DIA_3_01"]>>
    /\ walks[GetSymbolByName("F_HELPER").address] = 1
    /\ walks[GetSymbolByName("F_EMPTY").address] = 1

\* C17: the memo never holds an address whose walk is in progress, nested
\* callee walks included; an entry appears only in the step in which the
\* walk of its address is at the return opcode, and it is the result list of
\* that walk with all its events.
C17_MemoAfterReturn ==
    [][/\ \A j \in 1..Len(stack') :
             stack'[j].fun_addr \notin DOMAIN script_lines_cache'
       /\ \A a \in DOMAIN script_lines_cache' \ DOMAIN script_lines_cache :
             /\ pc = "walk"
             /\ stack[Len(stack)].fun_addr = a
             /\ stack[Len(stack)].inst.op = "RSR"
             /\ script_lines_cache'[a] = stack[Len(stack)].result
             /\ heap'[script_lines_cache'[a]] = heap[stack[Len(stack)].result]
       /\ (pc = "walk" /\ stack[Len(stack)].inst.op = "RSR") =>
             stack[Len(stack)].fun_addr \in DOMAIN script_lines_cache'
      ]_vars

\* witness of C17: F_CALLER is being walked, its callee F_HELPER is on the
\* stack above it, and the finished F_EMPTY is the only memo entry
C17_Witness ==
    /\ pc = "walk"
    /\ Len(stack) = 2
    /\ stack[1].fun_addr = GetSymbolByName("F_CALLER").address
    /\ stack[2].fun_addr = GetSymbolByName("F_HELPER").address
    /\ DOMAIN script_lines_cache = {GetSymbolByName("F_EMPTY").address}

\* the three instructions of window w follow each other in the stream
Consecutive(w) ==
    /\ w.inst2 = script.code[w.inst1.addr + w.inst1.size]
    /\ w.inst3 = script.code[w.inst2.addr + w.inst2.size]

\* window w2 is window w moved by one instruction
MovedByOne(w, w2) ==
    /\ w2.inst1 = w.inst2
    /\ w2.inst2 = w.inst3
    /\ w2.inst3 = script.code[w.inst3.addr + w.inst3.size]

\* C18: at every position of the window of parse_npc and of the matcher of
\* parse_dia the three instructions held are consecutive in the stream (each
\* at the address of the one before plus that one's encoded size); the first
\* window starts at the body's address, and a slide drops the oldest
\* instruction and decodes the one that follows the newest.
C18_WindowConsecutive ==
    [][/\ pc' = "npc_match" =>
             /\ Consecutive(npcw')
             /\ IF pc = "npc_match"
                THEN MovedByOne(npcw, npcw')
                ELSE npcw'.inst1 = script.code[script.symbols[npcw'.npc_idx].address]
       /\ pc' = "dia_match" =>
             /\ Consecutive(dia')
             /\ IF pc = "dia_match"
                THEN MovedByOne(dia, dia')
                ELSE dia'.inst1 = script.code[script.symbols[dia'.symbol].address]
      ]_vars

\* witness of C18: both windows were moved over instructions of sizes 1 and 5
C18_Witness ==
    /\ pc = "npc_match"
    /\ npcw.inst1.addr > script.symbols[npcw.npc_idx].address
    /\ npcw.inst1.size = 1 /\ npcw.inst2.size = 5 /\ npcw.inst3.size = 1
    /\ dia.inst1.addr > script.symbols[dia.symbol].address
    /\ dia.inst1.size = 5 /\ dia.inst3.size = 1

\* the keys of an insertion-ordered dict of pairs, and the value of key k
DictKeys(d) == {d[j][1] : j \in 1..Len(d)}

DictGet(d, k) == d[CHOOSE j \in 1..Len(d) : d[j][1] = k][2]

\* symbol index i is a member of the class named c
IsMemberOf(c, i) ==
    /\ i > GetSymbolByName(c).index
    /\ i <= GetSymbolByName(c).index + GetSymbolByName(c).size

C20_MemoFrozen ==
    [][/\ \A a \in DOMAIN script_lines_cache :
             /\ a \in DOMAIN script_lines_cache'
             /\ script_lines_cache'[a] = script_lines_cache[a]
             /\ heap'[script_lines_cache[a]] = heap[script_lines_cache[a]]
       /\ \A j \in 1..Len(stack') : \A a \in DOMAIN script_lines_cache' :
             stack'[j].result # script_lines_cache'[a]
       /\ (pc = "walk" /\ IsPlainCall(stack[Len(stack)].inst)
           /\ stack[Len(stack)].inst.address \in DOMAIN script_lines_cache) =>
             LET callee == script_lines_cache[stack[Len(stack)].inst.address]
             IN  /\ heap'[callee] = heap[callee]
                 /\ heap'[stack[Len(stack)].result] =
                       heap[stack[Len(stack)].result] \o heap[callee]
       /\ pc = "dia_lines" => heap' = heap
      ]_vars

\* witness of C20: F_HELPER was walked once, spliced into F_CALLER from the
\* fresh walk and from the memo, and the memoized sequence of F_CALLER was
\* looped over by two dialogue entries
C20_Witness ==
    /\ pc = "done"
    /\ Cardinality(DiaEntries) = 2
    /\ \A i \in DiaEntries :
          /\ EntryIs(i, 3, "F_CALLER")
          /\ \E j \in 1..Len(log) : log[j] = <<"dia", i, 4>>
    /\ walks[GetSymbolByName("F_CALLER").address] = 1
    /\ walks[GetSymbolByName("F_HELPER").address] = 1
    /\ heap[script_lines_cache[GetSymbolByName("F_HELPER").address]] =
          <<[speaker |-> "NPC", type |-> "NORMAL", line_name |-> "DIA_4_01"]>>

====
